---------------------------- MODULE Spec2Model ----------------------------
(***************************************************************************)
(* Model of the tickerizer name-resolution engine (src/tickerizer.js):     *)
(* cleanCompanyName, the FuzzyMatcher metrics and findTicker with its two  *)
(* process-wide caches.                                                    *)
(*                                                                         *)
(* Strings are TLA+ strings in the state; the algorithms work on their     *)
(* sequences of one-character strings (Chars / Str convert).               *)
(***************************************************************************)
EXTENDS Integers, Sequences, FiniteSets, TLC

VARIABLES
    cleanNameCache,   \* Map: lower-cased raw name -> normalized name
    tickerCache,      \* Map: <<normalized name, sorted full names>> -> identifier
    ncalls,           \* number of API calls made so far (bounded by the guards)
    call,             \* record of the last API call (inputs, branch, result, trace)
    hist              \* history: <<raw, mapping>> -> result of the first such call

vars == <<cleanNameCache, tickerCache, ncalls, call, hist>>

(***************************************************************************)
(* Characters                                                              *)
(***************************************************************************)
Chars(s) == [i \in 1..Len(s) |-> SubSeq(s, i, i)]

RECURSIVE Str(_)
Str(cs) == IF cs = <<>> THEN "" ELSE Head(cs) \o Str(Tail(cs))

\* The characters of the model, in UTF-16 code unit order (the order of
\* Array.prototype.sort and of string comparison).
AsciiChars == Chars(" &-.0123456789ABCDEFGHIJKLMNOPQRSTUVWXYZ_abcdefghijklmnopqrstuvwxyz")
UpperChars == Chars("ABCDEFGHIJKLMNOPQRSTUVWXYZ")
LowerChars == Chars("abcdefghijklmnopqrstuvwxyz")
DigitChars == Chars("0123456789")

Range(f) == {f[i] : i \in DOMAIN f}

CharSet == Range(AsciiChars)

\* (f @@ <<>> is f; it makes TLC build the table once instead of evaluating the
\* body at every application.)
Ord == [c \in CharSet |-> CHOOSE i \in DOMAIN AsciiChars : AsciiChars[i] = c] @@ <<>>

LowerOf == [c \in CharSet |->
              IF c \in Range(UpperChars)
              THEN LowerChars[CHOOSE i \in DOMAIN UpperChars : UpperChars[i] = c]
              ELSE c] @@ <<>>

UpperOf == [c \in CharSet |->
              IF c \in Range(LowerChars)
              THEN UpperChars[CHOOSE i \in DOMAIN LowerChars : LowerChars[i] = c]
              ELSE c] @@ <<>>

WordCharSet == Range(UpperChars) \cup Range(LowerChars) \cup Range(DigitChars) \cup {"_"}

\* \w of a JavaScript regular expression
IsWordChar(c) == c \in WordCharSet

\* \s of a JavaScript regular expression (the model's only white space is " ")
IsSpace(c) == c = " "

\* String.prototype.toLowerCase / toUpperCase
ToLowerCase(cs) == [i \in DOMAIN cs |-> LowerOf[cs[i]]]
ToUpperCase(cs) == [i \in DOMAIN cs |-> UpperOf[cs[i]]]

\* String.prototype.trim
RECURSIVE TrimLeft(_)
TrimLeft(cs) == IF cs # <<>> /\ IsSpace(Head(cs)) THEN TrimLeft(Tail(cs)) ELSE cs

RECURSIVE TrimRight(_)
TrimRight(cs) ==
    IF cs # <<>> /\ IsSpace(cs[Len(cs)]) THEN TrimRight(SubSeq(cs, 1, Len(cs) - 1)) ELSE cs

Trim(cs) == TrimRight(TrimLeft(cs))

\* String.prototype.startsWith
StartsWith(cs, p) == Len(p) <= Len(cs) /\ SubSeq(cs, 1, Len(p)) = p

\* p occurs in cs at position i (1-based)
OccursAt(cs, p, i) == i + Len(p) - 1 <= Len(cs) /\ SubSeq(cs, i, i + Len(p) - 1) = p

\* String.prototype.includes
Includes(cs, p) == \E i \in 1..(Len(cs) + 1) : OccursAt(cs, p, i)

(***************************************************************************)
(* cleanCompanyName                                                        *)
(***************************************************************************)
\* JavaScript null; no normalized name contains "<" or ">".
Null == "<null>"

\* The three regular expressions of `suffixes`, each an alternation tried in
\* order; dot marks an alternative written with an optional "\.?".
Term(w, dot) == [w |-> Chars(w), dot |-> dot]

LegalSuffixes ==
    << Term("ltd", TRUE), Term("limited", FALSE), Term("inc", TRUE),
       Term("incorporated", FALSE), Term("corp", TRUE), Term("corporation", FALSE),
       Term("llc", FALSE), Term("plc", FALSE), Term("pvt", TRUE), Term("private", FALSE) >>

Descriptors ==
    << Term("co", TRUE), Term("company", FALSE), Term("group", FALSE),
       Term("holding", FALSE), Term("holdings", FALSE), Term("industries", FALSE),
       Term("international", FALSE), Term("global", FALSE) >>

Conjunctions == << Term("&", FALSE), Term("and", FALSE), Term("amp", FALSE) >>

suffixes == << LegalSuffixes, Descriptors, Conjunctions >>

\* \b holds between positions i-1 and i of cs (i in 1..Len(cs)+1)
WordAt(cs, k) == k >= 1 /\ k <= Len(cs) /\ IsWordChar(cs[k])
Boundary(cs, i) == WordAt(cs, i - 1) # WordAt(cs, i)

\* Length matched at i by one alternative followed by \b (0: no match). The
\* optional dot is greedy: it is tried first and given up when \b fails after it.
AltMatchLen(cs, i, t) ==
    LET n == Len(t.w) IN
    IF ~OccursAt(cs, t.w, i) THEN 0
    ELSE IF t.dot /\ i + n <= Len(cs) /\ cs[i + n] = "." /\ Boundary(cs, i + n + 1)
         THEN n + 1
         ELSE IF Boundary(cs, i + n) THEN n ELSE 0

RECURSIVE FirstAlt(_, _, _, _)
FirstAlt(cs, i, terms, k) ==
    IF k > Len(terms) THEN 0
    ELSE LET n == AltMatchLen(cs, i, terms[k]) IN
         IF n > 0 THEN n ELSE FirstAlt(cs, i, terms, k + 1)

\* Length of the match of /\b(?:t1|t2|...)\b/ at position i (0: none)
MatchLen(cs, i, terms) == IF Boundary(cs, i) THEN FirstAlt(cs, i, terms, 1) ELSE 0

\* cs.replace(/\b(?:...)\b/g, ''): the matches are found left to right in cs
\* itself; the text that removals join is not scanned again.
RECURSIVE RemoveFrom(_, _, _, _)
RemoveFrom(cs, i, terms, acc) ==
    IF i > Len(cs) THEN acc
    ELSE LET n == MatchLen(cs, i, terms) IN
         IF n > 0 THEN RemoveFrom(cs, i + n, terms, acc)
         ELSE RemoveFrom(cs, i + 1, terms, Append(acc, cs[i]))

RemoveTerms(cs, terms) == RemoveFrom(cs, 1, terms, <<>>)

\* cs.replace(/[^\w\s]/g, ' ')
ReplacePunct(cs) ==
    [i \in DOMAIN cs |-> IF IsWordChar(cs[i]) \/ IsSpace(cs[i]) THEN cs[i] ELSE " "]

\* cs.replace(/\s+/g, ' ')
RECURSIVE CollapseFrom(_, _, _)
CollapseFrom(cs, i, acc) ==
    IF i > Len(cs) THEN acc
    ELSE IF IsSpace(cs[i])
         THEN IF i > 1 /\ IsSpace(cs[i - 1]) THEN CollapseFrom(cs, i + 1, acc)
              ELSE CollapseFrom(cs, i + 1, Append(acc, " "))
         ELSE CollapseFrom(cs, i + 1, Append(acc, cs[i]))

CollapseSpaces(cs) == CollapseFrom(cs, 1, <<>>)

RECURSIVE RemoveAll(_, _, _)
RemoveAll(cs, res, k) ==
    IF k > Len(res) THEN cs ELSE RemoveAll(RemoveTerms(cs, res[k]), res, k + 1)

\* Variant of NormalizeChars without the final .trim(): what C6's property must reject.
NormalizeChars_NoTrim(cs) ==
    CollapseSpaces(ReplacePunct(RemoveAll(Trim(ToLowerCase(cs)), suffixes, 1)))

\* The computation of cleanCompanyName on a cache miss, on characters.
NormalizeChars(cs) ==
    Trim(CollapseSpaces(ReplacePunct(RemoveAll(Trim(ToLowerCase(cs)), suffixes, 1))))

Normalize(name) == Str(NormalizeChars(Chars(name)))

\* !name || name.trim() === ''
IsBlank(name) == Trim(Chars(name)) = <<>>

LowerCase(name) == Str(ToLowerCase(Chars(name)))

(***************************************************************************)
(* Bounds and the names and mappings the calls are drawn from              *)
(***************************************************************************)
MaxCalls == 2     \* calls per behaviour of Spec
MaxEntries == 2   \* entries of a mapping
MaxLen == 4       \* length of a raw name of NormInputs

\* Spec: a few names over two keys with the same normalized name.
RawNames == {" ", "Cams Equity", "Ab Co", "CAMS", "Camz", "Zeta"}
Keys == {"Cams Ltd", "Cams Inc"}
Tickers == {"T1", "T2"}

\* SpecScan: one call on empty caches, over the fixture names of the test
\* script and names near them.
ScanNames ==
    {" ", "Cams Equity", "Ab Co", "CAMS", "Cam", "Camz", "Camsh", "Prec A", "Ad 1",
     "A B Real Estate", "Cams Services", "Precision"}
ScanKeys ==
    {"Computer Age Management Services Ltd", "Precision Camshafts Ltd", "A-1 Ltd",
     "Cams Ltd", "Cams Inc", "Cams Camshafts Ltd", "Aditya Birla Real Estate Ltd",
     "Cams Ab Ltd", "Ltd"}
ScanTickers == {"", "T1"}

\* SpecNorm: every raw name of at most MaxLen characters over NormAlphabet.
NormAlphabet == {"C", "c", "o", "&", ".", " "}
NormInputs ==
    {Str(cs) : cs \in UNION {[1..n -> NormAlphabet] : n \in 0..MaxLen}}

\* The ordered mappings (full name -> identifier, distinct full names) of at
\* most MaxEntries entries; Object.entries yields them in this order.
Distinct(d) == \A i, j \in DOMAIN d : i # j => d[i].key # d[j].key

DictsOver(keys, tickers) ==
    {d \in UNION {[1..n -> [key : keys, ticker : tickers]] : n \in 0..MaxEntries} :
        Distinct(d)}

Dicts == DictsOver(Keys, Tickers)
ScanDicts == DictsOver(ScanKeys, ScanTickers)

\* The normalized form of every name above
NormTab ==
    [n \in RawNames \cup ScanNames \cup Keys \cup ScanKeys |-> Normalize(n)] @@ <<>>

\* Values computed once for the names the calls are drawn from (see below);
\* Normalize computes the rest.
Normalized(name) == IF name \in DOMAIN NormTab THEN NormTab[name] ELSE Normalize(name)

\* cleanNameCache.set(cacheKey, cleanName); return cleanName
CacheClean(cacheKey, cleanName, cache) ==
    [val |-> cleanName, cache |-> (cacheKey :> cleanName) @@ cache]

\* The cache lookup of cleanCompanyName and, on a miss, the computation
LookupClean(name, cacheKey, cache) ==
    IF cacheKey \in DOMAIN cache
    THEN [val |-> cache[cacheKey], cache |-> cache]
    ELSE CacheClean(cacheKey, Normalized(name), cache)

\* cleanCompanyName(name) run against the cache `cache`: the value returned and
\* the cache it leaves.
CleanCompanyName(name, cache) ==
    IF IsBlank(name) THEN [val |-> Null, cache |-> cache]
    ELSE LookupClean(name, LowerCase(name), cache)

(***************************************************************************)
(* FuzzyMatcher                                                            *)
(***************************************************************************)
Min2(a, b) == IF a <= b THEN a ELSE b
Max2(a, b) == IF a >= b THEN a ELSE b
Abs(a) == IF a >= 0 THEN a ELSE -a

\* One row of the Levenshtein matrix: cur holds matrix[i][0..j-1], prev is row i-1.
\* (The Len tests only make TLC evaluate a row before it is passed on.)
RECURSIVE LevRow(_, _, _, _, _)
LevRow(prev, c, s2, j, cur) ==
    IF j > Len(s2) THEN cur
    ELSE LET cost == IF c = s2[j] THEN 0 ELSE 1
             v == Min2(Min2(prev[j + 1] + 1, cur[j] + 1), prev[j] + cost)
             next == Append(cur, v)
         IN IF Len(next) = j + 1 THEN LevRow(prev, c, s2, j + 1, next) ELSE <<>>

RECURSIVE LevRows(_, _, _, _)
LevRows(s1, s2, i, prev) ==
    IF i > Len(s1) THEN prev
    ELSE LET row == LevRow(prev, s1[i], s2, 1, <<i>>)
         IN IF Len(row) = Len(s2) + 1 THEN LevRows(s1, s2, i + 1, row) ELSE <<>>

\* matrix[len1][len2]
Distance(s1, s2) == LevRows(s1, s2, 1, [j \in 1..(Len(s2) + 1) |-> j - 1])[Len(s2) + 1]

\* Math.round(((maxLen - distance) / maxLen) * 100) in IEEE doubles. Rounding
\* half up of the exact quotient, except where the double product falls just
\* below the half: 23/40 * 100 = 57.49999999999999 (the only such case for
\* maxLen < 200).
RoundPercent(num, den) ==
    IF den % 40 = 0 /\ 40 * num = 23 * den THEN 57
    ELSE (200 * num + den) \div (2 * den)

\* FuzzyMatcher.ratio
Ratio(s1, s2) ==
    IF s1 = <<>> \/ s2 = <<>> THEN 0
    ELSE LET maxLen == Max2(Len(s1), Len(s2)) IN
         RoundPercent(maxLen - Distance(s1, s2), maxLen)

RECURSIVE BestWindow(_, _, _, _)
BestWindow(shorter, longer, i, bestRatio) ==
    IF i > Len(longer) - Len(shorter) THEN bestRatio
    ELSE LET substring == SubSeq(longer, i + 1, i + Len(shorter))
             ratio == Ratio(shorter, substring)
             best == Max2(bestRatio, ratio)
         IN IF best >= bestRatio THEN BestWindow(shorter, longer, i + 1, best) ELSE 0

\* FuzzyMatcher.partialRatio
PartialRatio(s1, s2) ==
    IF s1 = <<>> \/ s2 = <<>> THEN 0
    ELSE LET shorter == IF Len(s1) <= Len(s2) THEN s1 ELSE s2
             longer == IF Len(s1) > Len(s2) THEN s1 ELSE s2
         IN BestWindow(shorter, longer, 0, 0)

\* cs.split(/\s+/)
RECURSIVE SplitFrom(_, _, _, _)
SplitFrom(cs, i, cur, acc) ==
    IF i > Len(cs) THEN Append(acc, cur)
    ELSE IF IsSpace(cs[i])
         THEN IF i > 1 /\ IsSpace(cs[i - 1]) THEN SplitFrom(cs, i + 1, cur, acc)
              ELSE SplitFrom(cs, i + 1, <<>>, Append(acc, cur))
         ELSE SplitFrom(cs, i + 1, Append(cur, cs[i]), acc)

Split(cs) == SplitFrom(cs, 1, <<>>, <<>>)

\* a < b as JavaScript strings (by code unit)
RECURSIVE StrLess(_, _)
StrLess(a, b) ==
    IF b = <<>> THEN FALSE
    ELSE IF a = <<>> THEN TRUE
    ELSE IF Ord[Head(a)] # Ord[Head(b)] THEN Ord[Head(a)] < Ord[Head(b)]
    ELSE StrLess(Tail(a), Tail(b))

\* [...S].sort() of a set of distinct strings
RECURSIVE SortSet(_)
SortSet(S) ==
    IF S = {} THEN <<>>
    ELSE LET m == CHOOSE x \in S : \A y \in S \ {x} : StrLess(x, y)
         IN <<m>> \o SortSet(S \ {m})

\* words.sort(): insertion of each word into the sorted rest
RECURSIVE Insert(_, _)
Insert(w, ws) ==
    IF ws = <<>> THEN <<w>>
    ELSE IF StrLess(Head(ws), w) THEN <<Head(ws)>> \o Insert(w, Tail(ws))
    ELSE <<w>> \o ws

RECURSIVE Sort(_)
Sort(ws) == IF ws = <<>> THEN <<>> ELSE Insert(Head(ws), Sort(Tail(ws)))

\* words.join(' ')
RECURSIVE Join(_)
Join(ws) ==
    IF ws = <<>> THEN <<>>
    ELSE IF Len(ws) = 1 THEN ws[1]
    ELSE ws[1] \o <<" ">> \o Join(Tail(ws))

\* FuzzyMatcher.tokenSortRatio
TokenSortRatio(s1, s2) ==
    IF s1 = <<>> \/ s2 = <<>> THEN 0
    ELSE Ratio(Join(Sort(Split(s1))), Join(Sort(Split(s2))))

\* FuzzyMatcher.tokenSetRatio
TokenSetRatio(s1, s2) ==
    IF s1 = <<>> \/ s2 = <<>> THEN 0
    ELSE LET tokens1 == Range(Split(s1))
             tokens2 == Range(Split(s2))
             sortedIntersection == Join(SortSet(tokens1 \cap tokens2))
             sorted1 == Join(SortSet(tokens1 \ tokens2))
             sorted2 == Join(SortSet(tokens2 \ tokens1))
             combined1 == Trim(sortedIntersection \o <<" ">> \o sorted1)
             combined2 == Trim(sortedIntersection \o <<" ">> \o sorted2)
         IN Ratio(combined1, combined2)

(***************************************************************************)
(* The composite score of findTicker's Strategy 2, for one (input, key)    *)
(* pair of normalized names. Words are sequences of characters.            *)
(***************************************************************************)
minThreshold == 70

\* Math.max(baseScore, partialScore, tokenSetScore), the partial score capped
\* for very short keys
BaseScore(cleanName, cleanKey) ==
    LET baseScore == TokenSortRatio(cleanName, cleanKey)
        partialRaw == PartialRatio(cleanName, cleanKey)
        tokenSetScore == TokenSetRatio(cleanName, cleanKey)
        partialScore == IF Len(cleanKey) <= 4 /\ partialRaw > 80
                        THEN Min2(partialRaw, 60) ELSE partialRaw
    IN Max2(Max2(baseScore, partialScore), tokenSetScore)

\* The inner loop over keyWords: the first key word that satisfies either
\* abbreviation test decides, and the loop breaks there.
\*   "prefix" : keyWord.startsWith(inputWord), inputWord.length >= 3
\*   "stem"   : inputWord.startsWith(keyWord), keyWord.length >= 3
RECURSIVE AbbrevMatch(_, _, _)
AbbrevMatch(inputWord, keyWords, k) ==
    IF k > Len(keyWords) THEN "none"
    ELSE IF Len(inputWord) >= 3 /\ StartsWith(keyWords[k], inputWord) THEN "prefix"
    ELSE IF Len(keyWords[k]) >= 3 /\ StartsWith(inputWord, keyWords[k]) THEN "stem"
    ELSE AbbrevMatch(inputWord, keyWords, k + 1)

\* How one input word is matched: "exact", "prefix", "stem" or "none"
WordRule(inputWord, keyWords) ==
    IF \E k \in DOMAIN keyWords : keyWords[k] = inputWord THEN "exact"
    ELSE AbbrevMatch(inputWord, keyWords, 1)

\* Variant of WordMatch counting a match by any rule as significant: what C8's
\* property must reject.
WordMatch_AnyRule(inputWord, keyWords) ==
    LET rule == WordRule(inputWord, keyWords) IN
    [ matched |-> IF rule # "none" THEN 1 ELSE 0,
      significant |-> IF rule # "none" /\ Len(inputWord) > 3 THEN 1 ELSE 0 ]

\* The increments of matchedWords and significantMatches for one input word
WordMatch(inputWord, keyWords) ==
    LET rule == WordRule(inputWord, keyWords) IN
    [ matched |-> IF rule # "none" THEN 1 ELSE 0,
      significant |-> IF rule \in {"exact", "prefix"} /\ Len(inputWord) > 3 THEN 1 ELSE 0 ]

RECURSIVE SumOver(_, _)
SumOver(f, n) == IF n = 0 THEN 0 ELSE f[n] + SumOver(f, n - 1)

\* The word-level loop: matchedWords and significantMatches
WordOverlap(inputWords, keyWords) ==
    LET m == [i \in DOMAIN inputWords |-> WordMatch(inputWords[i], keyWords)] IN
    [ matchedWords |-> SumOver([i \in DOMAIN inputWords |-> m[i].matched], Len(inputWords)),
      significantMatches |->
          SumOver([i \in DOMAIN inputWords |-> m[i].significant], Len(inputWords)) ]

\* inputWords.filter(w => w.length > 3).length
SignificantWordsCount(inputWords) ==
    Cardinality({i \in DOMAIN inputWords : Len(inputWords[i]) > 3})

\* The boost for word matches and the penalty for poor word matching. The
\* ratios are compared as fractions: wordMatchRatio = matchedWords / total,
\* significantMatchRatio = significantMatches / significantWordsCount (0 when
\* there are no significant words).
OverlapAdjust(inputWords, ov) ==
    LET total == Len(inputWords)
        sigCount == SignificantWordsCount(inputWords)
        wordAtLeast(num, den) == total > 0 /\ den * ov.matchedWords >= num * total
        sigAtLeastHalf == sigCount > 0 /\ 2 * ov.significantMatches >= sigCount
        boost == IF wordAtLeast(8, 10) /\ sigAtLeastHalf THEN 40
                 ELSE IF wordAtLeast(7, 10) THEN 30
                 ELSE IF wordAtLeast(5, 10) THEN 15
                 ELSE 0
        penalty == IF total >= 2 /\ ~wordAtLeast(3, 10) THEN 25 ELSE 0
    IN boost - penalty

\* Penalty for very different lengths
LengthAdjust(cleanName, cleanKey) ==
    LET lenDiff == Abs(Len(cleanName) - Len(cleanKey)) IN
    IF lenDiff > 10 THEN -Min2(20, lenDiff) ELSE 0

\* First word similarity
FirstWordAdjust(inputWords, keyWords) ==
    IF Len(inputWords) > 0 /\ Len(keyWords) > 0
    THEN LET firstWordScore == Ratio(inputWords[1], keyWords[1]) IN
         IF firstWordScore < 60 THEN -20
         ELSE IF firstWordScore >= 90 THEN 10
         ELSE 0
    ELSE 0

\* Boost for company name prefix matches
PrefixAdjust(inputWords, keyWords) ==
    IF Len(inputWords) > 0 /\ Len(keyWords) > 0
    THEN IF inputWords[1] = keyWords[1] THEN 25
         ELSE IF Len(inputWords[1]) >= 3 /\ StartsWith(keyWords[1], inputWords[1]) THEN 20
         ELSE IF Len(keyWords[1]) >= 3 /\ StartsWith(inputWords[1], keyWords[1]) THEN 15
         ELSE 0
    ELSE 0

\* keyWords.filter(word => word.length > 2).map(word => word[0].toUpperCase()).join('')
RECURSIVE Acronym(_)
Acronym(keyWords) ==
    IF keyWords = <<>> THEN <<>>
    ELSE (IF Len(Head(keyWords)) > 2 THEN <<UpperOf[Head(keyWords)[1]]>> ELSE <<>>)
         \o Acronym(Tail(keyWords))

\* Variant of AcronymApplies admitting one-word keys: what C9's property must reject.
AcronymApplies_OneWord(keyWords) == Len(keyWords) >= 1

\* The guard of the acronym block
AcronymApplies(keyWords) == Len(keyWords) >= 2

\* Variant of AcronymFloor without Math.max(score, 95): what C10's property
\* must reject.
AcronymFloor_BoostOnly(score) == score + 50

\* The score of a perfect single-word acronym match
AcronymFloor(score) == Max2(score + 50, 95)

\* The acronym block: the score it leaves, given the score so far
AcronymStep(score, inputWords, keyWords) ==
    IF ~AcronymApplies(keyWords) THEN score
    ELSE LET acronym == Acronym(keyWords) IN
         IF Len(inputWords) = 1 /\ Len(inputWords[1]) >= 3
         THEN LET inputWord == ToUpperCase(inputWords[1]) IN
              IF inputWord = acronym THEN AcronymFloor(score)
              ELSE IF Includes(acronym, inputWord) \/ StartsWith(acronym, inputWord)
                   THEN score + 30
              ELSE IF Len(inputWord) >= 3 /\ Len(inputWord) <= 5 THEN score - 15
              ELSE score
         ELSE IF Len(inputWords) >= 2 /\ Len(inputWords[1]) >= 3
         THEN LET firstWord == ToUpperCase(inputWords[1]) IN
              IF firstWord = acronym THEN score + 45
              ELSE IF Includes(acronym, firstWord) \/ StartsWith(acronym, firstWord)
                   THEN score + 25
              ELSE score
         ELSE score

\* One iteration of the scoring loop for a key whose normalized name is
\* non-empty: the counters, the score before the acronym block and the score.
ScoreCandidate(cleanName, cleanKey) ==
    LET cn == Chars(cleanName)
        ck == Chars(cleanKey)
        inputWords == Split(cn)
        keyWords == Split(ck)
        ov == WordOverlap(inputWords, keyWords)
        pre == BaseScore(cn, ck) + OverlapAdjust(inputWords, ov) + LengthAdjust(cn, ck)
               + FirstWordAdjust(inputWords, keyWords) + PrefixAdjust(inputWords, keyWords)
    IN [ cleanKey |-> cleanKey,
         matchedWords |-> ov.matchedWords,
         significantMatches |-> ov.significantMatches,
         pre |-> pre,
         score |-> AcronymStep(pre, inputWords, keyWords) ]

\* The scoring record of every (input, key) pair of the names above
ScoreTab ==
    [p \in ({NormTab[n] : n \in RawNames \cup ScanNames} \ {""})
           \X ({NormTab[k] : k \in Keys \cup ScanKeys} \ {""}) |->
        ScoreCandidate(p[1], p[2])] @@ <<>>

Scored(cleanName, cleanKey) ==
    IF <<cleanName, cleanKey>> \in DOMAIN ScoreTab
    THEN ScoreTab[<<cleanName, cleanKey>>]
    ELSE ScoreCandidate(cleanName, cleanKey)

(***************************************************************************)
(* findTicker                                                              *)
(***************************************************************************)
\* Variant of IsSentinel without the "Equity" test: what C5's property must reject.
IsSentinel_CashOnly(companyName) ==
    \/ IsBlank(companyName)
    \/ Includes(Chars(companyName), Chars("Cash"))

\* The first test of findTicker: empty, blank, or holding "Cash" or "Equity"
IsSentinel(companyName) ==
    \/ IsBlank(companyName)
    \/ Includes(Chars(companyName), Chars("Cash"))
    \/ Includes(Chars(companyName), Chars("Equity"))

\* !cleanName || cleanName.length <= 2
TooShort(cleanName) == cleanName = Null \/ Len(cleanName) <= 2

\* `${cleanName}:${JSON.stringify(Object.keys(tickerDict).sort())}`: the text
\* determines the pair and the pair the text (cleanName holds no ":").
CacheKey(cleanName, tickerDict) ==
    LET sorted == Sort([i \in DOMAIN tickerDict |-> Chars(tickerDict[i].key)]) IN
    <<cleanName, [i \in DOMAIN sorted |-> Str(sorted[i])]>>

\* Strategy 1, from entry i on: the first entry whose normalized key equals
\* cleanName (0: none), and the normalization cache the loop leaves.
RECURSIVE ExactScan(_, _, _, _)
ExactStep(tickerDict, i, cleanName, c) ==
    IF c.val = cleanName THEN [found |-> i, cache |-> c.cache]
    ELSE ExactScan(tickerDict, i + 1, cleanName, c.cache)

ExactScan(tickerDict, i, cleanName, cache) ==
    IF i > Len(tickerDict) THEN [found |-> 0, cache |-> cache]
    ELSE ExactStep(tickerDict, i, cleanName, CleanCompanyName(tickerDict[i].key, cache))

\* Strategy 1.5, for one key
DirectHit(keyUpper, inputUpper) ==
    \/ Includes(keyUpper, <<" ">> \o inputUpper \o <<" ">>)
    \/ StartsWith(keyUpper, inputUpper \o <<" ">>)

DirectMatch(key, cleanName) ==
    DirectHit(ToUpperCase(Chars(key)), ToUpperCase(Chars(cleanName)))

\* Strategy 1.5, from entry i on: the first entry matched (0: none)
RECURSIVE DirectFrom(_, _, _)
DirectFrom(tickerDict, i, cleanName) ==
    IF i > Len(tickerDict) THEN 0
    ELSE IF DirectMatch(tickerDict[i].key, cleanName) THEN i
    ELSE DirectFrom(tickerDict, i + 1, cleanName)

\* inputWords.length === 1 && cleanName.length >= 3
DirectApplies(cleanName) == Len(Split(Chars(cleanName))) = 1 /\ Len(cleanName) >= 3

DirectScan(tickerDict, cleanName) ==
    IF DirectApplies(cleanName) THEN DirectFrom(tickerDict, 1, cleanName) ELSE 0

\* Variant of IsBetter with the threshold test strict: what C2's property must reject.
IsBetter_Above(score, bestScore) == score > bestScore /\ score > minThreshold

\* Variant of IsBetter taking a later equal score: what C7's property must reject.
IsBetter_OrEqual(score, bestScore) == score >= bestScore /\ score >= minThreshold

\* if (score > bestScore && score >= minThreshold)
IsBetter(score, bestScore) == score > bestScore /\ score >= minThreshold

\* The trace entry of a key the scoring loop skips (!cleanKey)
Skipped == [cleanKey |-> Null, matchedWords |-> 0, significantMatches |-> 0,
            pre |-> 0, score |-> 0]

\* Strategy 2: the loop over the entries from i on. st holds bestMatch (an
\* entry's index, 0 for null), bestScore, the normalization cache and the
\* trace of the iterations done.
RECURSIVE FuzzyScan(_, _, _, _)
Track(st, i, sc, better, cache) ==
    [ bestMatch |-> IF better THEN i ELSE st.bestMatch,
      bestScore |-> IF better THEN sc.score ELSE st.bestScore,
      cache |-> cache,
      trace |-> Append(st.trace, sc) ]

FuzzyScore(tickerDict, i, cleanName, st, sc, cache) ==
    FuzzyScan(tickerDict, i + 1, cleanName,
              Track(st, i, sc, IsBetter(sc.score, st.bestScore), cache))

FuzzyStep(tickerDict, i, cleanName, st, c) ==
    IF c.val = Null \/ c.val = ""
    THEN FuzzyScan(tickerDict, i + 1, cleanName,
             [st EXCEPT !.cache = c.cache, !.trace = Append(@, Skipped)])
    ELSE FuzzyScore(tickerDict, i, cleanName, st, Scored(cleanName, c.val), c.cache)

FuzzyScan(tickerDict, i, cleanName, st) ==
    IF i > Len(tickerDict) THEN st
    ELSE FuzzyStep(tickerDict, i, cleanName, st,
                   CleanCompanyName(tickerDict[i].key, st.cache))

\* What a call leaves when no scoring loop ran
Outcome(branch, result, cleanName, cnCache, tCache) ==
    [ branch |-> branch, result |-> result, cleanName |-> cleanName,
      cleanNameCache |-> cnCache, tickerCache |-> tCache,
      bestMatch |-> 0, bestScore |-> 0, trace |-> <<>> ]

\* tickerCache.set(cacheKey, ticker); return ticker
Store(branch, ticker, cleanName, cacheKey, cnCache, tCache) ==
    Outcome(branch, ticker, cleanName, cnCache, (cacheKey :> ticker) @@ tCache)

\* Variant of Finish that stores only a match: what C4's property must reject.
Finish_MatchOnly(result, cleanName, cacheKey, tCache, st) ==
    [ branch |-> IF st.bestMatch # 0 THEN "fuzzy" ELSE "nomatch",
      result |-> result, cleanName |-> cleanName,
      cleanNameCache |-> st.cache,
      tickerCache |-> IF st.bestMatch # 0 THEN (cacheKey :> result) @@ tCache ELSE tCache,
      bestMatch |-> st.bestMatch, bestScore |-> st.bestScore, trace |-> st.trace ]

\* The end of findTicker: if (bestMatch) ... else ...
Finish(result, cleanName, cacheKey, tCache, st) ==
    [ branch |-> IF st.bestMatch # 0 THEN "fuzzy" ELSE "nomatch",
      result |-> result, cleanName |-> cleanName,
      cleanNameCache |-> st.cache, tickerCache |-> (cacheKey :> result) @@ tCache,
      bestMatch |-> st.bestMatch, bestScore |-> st.bestScore, trace |-> st.trace ]

Strategy2(tickerDict, cleanName, cacheKey, tCache, st) ==
    Finish(IF st.bestMatch # 0 THEN tickerDict[st.bestMatch].ticker ELSE "",
           cleanName, cacheKey, tCache, st)

Strategy15(tickerDict, cleanName, cacheKey, cnCache, tCache, direct) ==
    IF direct # 0
    THEN Store("direct", tickerDict[direct].ticker, cleanName, cacheKey, cnCache, tCache)
    ELSE Strategy2(tickerDict, cleanName, cacheKey, tCache,
             FuzzyScan(tickerDict, 1, cleanName,
                 [bestMatch |-> 0, bestScore |-> 0, cache |-> cnCache, trace |-> <<>>]))

Strategy1(tickerDict, cleanName, cacheKey, tCache, exact) ==
    IF exact.found # 0
    THEN Store("exact", tickerDict[exact.found].ticker, cleanName, cacheKey,
               exact.cache, tCache)
    ELSE Strategy15(tickerDict, cleanName, cacheKey, exact.cache, tCache,
                    DirectScan(tickerDict, cleanName))

\* The lookup in tickerCache and, on a miss, the strategies
Lookup(tickerDict, cleanName, cacheKey, cnCache, tCache) ==
    IF cacheKey \in DOMAIN tCache
    THEN Outcome("cached", tCache[cacheKey], cleanName, cnCache, tCache)
    ELSE Strategy1(tickerDict, cleanName, cacheKey, tCache,
                   ExactScan(tickerDict, 1, cleanName, cnCache))

\* findTicker after cleanCompanyName(companyName) returned c
Cleaned(tickerDict, c, tCache) ==
    IF TooShort(c.val) THEN Outcome("short", "", c.val, c.cache, tCache)
    ELSE Lookup(tickerDict, c.val, CacheKey(c.val, tickerDict), c.cache, tCache)

\* findTicker(companyName, tickerDict) run against the two caches: the value
\* returned, the branch taken and the caches it leaves.
Resolve(companyName, tickerDict, cnCache, tCache) ==
    IF IsSentinel(companyName) THEN Outcome("skip", "", Null, cnCache, tCache)
    ELSE Cleaned(tickerDict, CleanCompanyName(companyName, cnCache), tCache)

(***************************************************************************)
(* The state machine                                                       *)
(***************************************************************************)
Init ==
    /\ cleanNameCache = <<>>
    /\ tickerCache = <<>>
    /\ ncalls = 0
    /\ call = [op |-> "none"]
    /\ hist = <<>>

\* The state a call findTicker(companyName, tickerDict) leaves, r being what
\* the call did; k is the call, as the history records it.
Returned(companyName, tickerDict, k, r) ==
    /\ cleanNameCache' = r.cleanNameCache
    /\ tickerCache' = r.tickerCache
    /\ ncalls' = ncalls + 1
    /\ call' = [ op |-> "findTicker", companyName |-> companyName,
                 tickerDict |-> tickerDict, repeated |-> k \in DOMAIN hist,
                 branch |-> r.branch, result |-> r.result, cleanName |-> r.cleanName,
                 bestMatch |-> r.bestMatch, bestScore |-> r.bestScore,
                 trace |-> r.trace ]
    /\ hist' = IF k \in DOMAIN hist THEN hist ELSE (k :> r.result) @@ hist

\* A call findTicker(companyName, tickerDict)
FindTicker(companyName, tickerDict) ==
    Returned(companyName, tickerDict, <<companyName, tickerDict>>,
             Resolve(companyName, tickerDict, cleanNameCache, tickerCache))

\* The state a call cleanCompanyName(name) leaves, c being what it did
Normalised(op, name, first, c) ==
    /\ cleanNameCache' = c.cache
    /\ ncalls' = ncalls + 1
    /\ call' = [op |-> op, name |-> name, first |-> first, result |-> c.val]
    /\ UNCHANGED <<tickerCache, hist>>

\* Calls of findTicker in any order, on the caches the earlier calls left
Next ==
    /\ ncalls < MaxCalls
    /\ \E companyName \in RawNames, tickerDict \in Dicts :
           FindTicker(companyName, tickerDict)

Spec == Init /\ [][Next]_vars

\* One call of findTicker on empty caches
NextScan ==
    /\ ncalls < 1
    /\ \E companyName \in ScanNames, tickerDict \in ScanDicts :
           FindTicker(companyName, tickerDict)

SpecScan == Init /\ [][NextScan]_vars

\* cleanCompanyName applied to a raw name, then to its own result
NormalizeRaw ==
    /\ ncalls = 0
    /\ \E name \in NormInputs :
           Normalised("cleanCompanyName", name, name,
                      CleanCompanyName(name, cleanNameCache))

NormalizeAgain ==
    /\ ncalls = 1
    /\ call.op = "cleanCompanyName"
    /\ call.result # Null
    /\ Normalised("again", call.name, call.result,
                  CleanCompanyName(call.result, cleanNameCache))

NextNorm == NormalizeRaw \/ NormalizeAgain

SpecNorm == Init /\ [][NextNorm]_vars

(***************************************************************************)
(* Properties. The definitions below are stated in the words of the        *)
(* specification and do not use the operators of findTicker they speak of. *)
(***************************************************************************)
\* The last call was findTicker
Called == call.op = "findTicker"

\* ... and it ran the scoring loop (no early return, no cache hit, no exact or
\* direct match)
Scanned == Called /\ call.branch \in {"fuzzy", "nomatch"}

\* The entries the scoring loop scored: those with a non-empty normalized name
ScoredEntries == {i \in DOMAIN call.trace : call.trace[i].cleanKey # Null}

MinOf(S) == CHOOSE m \in S : \A x \in S : m <= x

\* The normalized form of a name: null for a blank name
NameOf(name) == IF IsBlank(name) THEN Null ELSE Normalized(name)

\* The tokens of a normalized name
WordsOf(cleanName) == Split(Chars(cleanName))

\* An input the first check of findTicker turns away
ClaimSentinel(name) ==
    \/ IsBlank(name)
    \/ \E word \in {"Cash", "Equity"} : Includes(Chars(name), Chars(word))

\* An input that passes the sentinel and too-short checks
PassesChecks(name) == ~ClaimSentinel(name) /\ NameOf(name) # Null /\ Len(NameOf(name)) > 2

(***************************************************************************)
(* C1: for an input that passes the sentinel and too-short checks, if some *)
(* entry's normalized full name equals the normalized input, the call      *)
(* returns the identifier of the first such entry in the mapping's order.  *)
(* Violated: a hit in tickerCache, whose key holds neither identifiers nor *)
(* order, returns the identifier an earlier call stored (see C3).          *)
(***************************************************************************)
C1_ExactMatchFirst ==
    (Called /\ PassesChecks(call.companyName)) =>
        LET exact == {i \in DOMAIN call.tickerDict :
                         NameOf(call.tickerDict[i].key) = NameOf(call.companyName)}
        IN exact # {} => call.result = call.tickerDict[MinOf(exact)].ticker

(***************************************************************************)
(* C3: the value a call returns for (input, mapping) is the value the same *)
(* call returns with both caches empty, whatever calls came before.        *)
(* Violated: after a call with the same input and the same set of full     *)
(* names, the earlier result is returned although the identifiers or the   *)
(* order of the entries differ.                                            *)
(***************************************************************************)
C3_ResultIsPure ==
    Called => call.result = Resolve(call.companyName, call.tickerDict, <<>>, <<>>).result

(***************************************************************************)
(* C4: a call that repeats an earlier call's raw input and mapping returns *)
(* the value the first of those calls returned; when the input passes the  *)
(* sentinel and too-short checks, the repeat is served from tickerCache    *)
(* (the stored value, an empty string included) and leaves tickerCache as  *)
(* it was.                                                                 *)
(***************************************************************************)
C4_RepeatServedFromCache ==
    [][ ( /\ ncalls' = ncalls + 1
          /\ call'.op = "findTicker"
          /\ <<call'.companyName, call'.tickerDict>> \in DOMAIN hist )
        => /\ call'.result = hist[<<call'.companyName, call'.tickerDict>>]
           /\ PassesChecks(call'.companyName) =>
                 /\ call'.branch = "cached"
                 /\ CacheKey(NameOf(call'.companyName), call'.tickerDict) \in DOMAIN tickerCache
                 /\ call'.result =
                        tickerCache[CacheKey(NameOf(call'.companyName), call'.tickerDict)]
                 /\ tickerCache' = tickerCache ]_vars

\* C4 witness: a repeated call over a non-empty mapping that passes the checks
\* and is answered from the cache with the empty string its first occurrence
\* stored
C4_RepeatWitness ==
    /\ Called /\ call.repeated /\ call.branch = "cached"
    /\ PassesChecks(call.companyName)
    /\ call.tickerDict # <<>>
    /\ call.result = ""
    /\ tickerCache[CacheKey(NameOf(call.companyName), call.tickerDict)] = ""

(***************************************************************************)
(* C5: a call whose raw input is empty, blank, or contains "Cash" or       *)
(* "Equity" returns the empty string and leaves cleanNameCache and         *)
(* tickerCache exactly as they were, whatever the mapping holds.           *)
(***************************************************************************)
C5_SentinelLeavesCaches ==
    [][ ( /\ ncalls' = ncalls + 1
          /\ call'.op = "findTicker"
          /\ ClaimSentinel(call'.companyName) )
        => /\ call'.result = ""
           /\ cleanNameCache' = cleanNameCache
           /\ tickerCache' = tickerCache ]_vars

\* C5 witness: a call with "Equity" in its input, over a non-empty mapping that
\* holds a name the input would match, made when both caches hold entries
C5_SentinelWitness ==
    /\ Called /\ call.branch = "skip"
    /\ call.companyName = "Cams Equity"
    /\ call.tickerDict # <<>>
    /\ cleanNameCache # <<>>
    /\ tickerCache # <<>>
    /\ call.result = ""

(***************************************************************************)
(* C2: in the scoring loop the selection threshold lies between 69 and 70: *)
(* an entry whose composite score is 69 or less is never the one selected, *)
(* and an entry whose composite score is exactly 70 is selected and its    *)
(* identifier returned, provided no other entry scores higher (nor an      *)
(* earlier one 70 as well).                                                *)
(***************************************************************************)
C2_ThresholdIs70 ==
    Scanned =>
        \A i \in ScoredEntries :
            /\ call.trace[i].score <= 69 => call.bestMatch # i
            /\ ( /\ call.trace[i].score = 70
                 /\ \A j \in ScoredEntries \ {i} :
                        /\ call.trace[j].score <= 70
                        /\ j < i => call.trace[j].score < 70 )
               => /\ call.bestMatch = i
                  /\ call.result = call.tickerDict[i].ticker

\* C2 witness: a mapping of two scored entries, one of them scoring exactly
\* 70, which the call selects
C2_Score70Selected ==
    /\ Scanned
    /\ Cardinality(ScoredEntries) >= 2
    /\ \E i \in ScoredEntries :
           /\ call.trace[i].score = 70
           /\ call.bestMatch = i
           /\ call.result = call.tickerDict[i].ticker

(***************************************************************************)
(* C7: the scoring loop selects, among the entries whose score is at least *)
(* 70, the one with the highest score, and among several with that score   *)
(* the earliest in the mapping's order; with no entry at 70 or above the   *)
(* call returns the empty string.                                          *)
(***************************************************************************)
C7_EarliestMaximum ==
    Scanned =>
        LET eligible == {i \in ScoredEntries : call.trace[i].score >= 70}
            top == {i \in eligible :
                       \A j \in eligible : call.trace[j].score <= call.trace[i].score}
        IN IF eligible = {}
           THEN call.bestMatch = 0 /\ call.result = ""
           ELSE /\ call.bestMatch = MinOf(top)
                /\ call.result = call.tickerDict[MinOf(top)].ticker

\* C7 witness: two entries share the highest score, which is at least 70, and
\* the earlier is selected
C7_TieWitness ==
    /\ Scanned
    /\ \E i, j \in ScoredEntries :
           /\ i < j
           /\ call.trace[i].score = call.trace[j].score
           /\ call.trace[i].score >= 70
           /\ call.bestScore = call.trace[i].score
           /\ call.bestMatch = i

\* The three matching rules of the word-overlap step, for an input token w
Verbatim(w, ks) == \E k \in DOMAIN ks : ks[k] = w
InputIsPrefix(w, kw) == Len(w) >= 3 /\ StartsWith(kw, w)
CandidateIsPrefix(w, kw) == Len(kw) >= 3 /\ StartsWith(w, kw)

TokenMatched(w, ks) ==
    \/ Verbatim(w, ks)
    \/ \E k \in DOMAIN ks : InputIsPrefix(w, ks[k])
    \/ \E k \in DOMAIN ks : CandidateIsPrefix(w, ks[k])

\* w is matched verbatim, or the first candidate token that satisfies either
\* prefix rule satisfies "the candidate token starts with w"
TokenSignificant(w, ks) ==
    \/ Verbatim(w, ks)
    \/ \E k \in DOMAIN ks :
           /\ InputIsPrefix(w, ks[k])
           /\ \A j \in 1..(k - 1) : ~CandidateIsPrefix(w, ks[j])

MatchedTokens(ws, ks) == {t \in DOMAIN ws : TokenMatched(ws[t], ks)}

(***************************************************************************)
(* C8 as the specification states it: an input token is matched by any of  *)
(* the three rules, and the significant-match count is the number of       *)
(* matched input tokens longer than 3 characters, whichever rule matched.  *)
(* Violated: "camsh" against "cams" is matched (a candidate token of       *)
(* length >= 3 is a prefix of it) but is not counted as significant.       *)
(***************************************************************************)
C8_SignificantWhicheverRule ==
    Scanned =>
        \A i \in ScoredEntries :
            LET ws == WordsOf(call.cleanName)
                ks == WordsOf(call.trace[i].cleanKey)
            IN /\ call.trace[i].matchedWords = Cardinality(MatchedTokens(ws, ks))
               /\ call.trace[i].significantMatches =
                      Cardinality({t \in MatchedTokens(ws, ks) : Len(ws[t]) > 3})

(***************************************************************************)
(* C8, corrected: the matched tokens are those the three rules give; the   *)
(* significant-match count is the number of input tokens longer than 3     *)
(* characters that are matched verbatim or by "a candidate token starts    *)
(* with it", the two prefix rules being tried candidate token by candidate *)
(* token with the first token satisfying either deciding. A match by "a    *)
(* candidate token of length >= 3 is a prefix of it" is never significant. *)
(***************************************************************************)
C8_SignificantByRule ==
    Scanned =>
        \A i \in ScoredEntries :
            LET ws == WordsOf(call.cleanName)
                ks == WordsOf(call.trace[i].cleanKey)
            IN /\ call.trace[i].matchedWords = Cardinality(MatchedTokens(ws, ks))
               /\ call.trace[i].significantMatches =
                      Cardinality({t \in DOMAIN ws :
                                      Len(ws[t]) > 3 /\ TokenSignificant(ws[t], ks)})

\* C8 witness: an input token longer than 3 characters that a candidate token
\* starts with, matched through an earlier candidate token that is a prefix of
\* it, and so not significant
C8_StemWitness ==
    /\ Scanned
    /\ \E i \in ScoredEntries :
           LET ws == WordsOf(call.cleanName)
               ks == WordsOf(call.trace[i].cleanKey)
           IN /\ Len(ws) = 1 /\ Len(ws[1]) > 3
              /\ \E k \in DOMAIN ks : InputIsPrefix(ws[1], ks[k])
              /\ ~TokenSignificant(ws[1], ks)
              /\ call.trace[i].matchedWords = 1
              /\ call.trace[i].significantMatches = 0

\* The candidate tokens longer than 2 characters, which give the acronym
Qualifying(ks) == {k \in DOMAIN ks : Len(ks[k]) > 2}

\* A one-token input of 3 to 5 characters
ShortSingleToken(ws) == Len(ws) = 1 /\ Len(ws[1]) >= 3 /\ Len(ws[1]) <= 5

(***************************************************************************)
(* C9 as the specification states it: for a candidate with fewer than 2    *)
(* tokens longer than 2 characters the acronym step is skipped, so the     *)
(* score is the score before that step (no boost, no penalty).             *)
(* Violated: "a 1" (from "A-1 Ltd") has no such token, yet a one-token     *)
(* input of 3 to 5 characters loses 15 points against it.                  *)
(***************************************************************************)
C9_SkippedBelowTwoQualifying ==
    Scanned =>
        \A i \in ScoredEntries :
            Cardinality(Qualifying(WordsOf(call.trace[i].cleanKey))) < 2
                => call.trace[i].score = call.trace[i].pre

(***************************************************************************)
(* C9, corrected: the acronym step is skipped for a candidate of fewer     *)
(* than 2 tokens, of any length. A candidate of 2 or more tokens of which  *)
(* fewer than 2 are longer than 2 characters earns no boost and receives   *)
(* the penalty of 15 exactly when the input is one token of 3 to 5         *)
(* characters.                                                             *)
(***************************************************************************)
C9_SkippedBelowTwoTokens ==
    Scanned =>
        \A i \in ScoredEntries :
            LET ws == WordsOf(call.cleanName)
                ks == WordsOf(call.trace[i].cleanKey)
                delta == call.trace[i].score - call.trace[i].pre
            IN /\ Len(ks) < 2 => delta = 0
               /\ (Len(ks) >= 2 /\ Cardinality(Qualifying(ks)) < 2)
                      => delta = IF ShortSingleToken(ws) THEN -15 ELSE 0

\* C9 witness: a candidate of two tokens, only one of them longer than 2
\* characters, penalized against a one-token input
C9_PenaltyWitness ==
    /\ Scanned
    /\ \E i \in ScoredEntries :
           LET ks == WordsOf(call.trace[i].cleanKey) IN
           /\ Len(ks) = 2
           /\ Cardinality(Qualifying(ks)) = 1
           /\ ShortSingleToken(WordsOf(call.cleanName))
           /\ call.trace[i].score = call.trace[i].pre - 15

\* The acronym of a candidate: the upper-cased first characters of its tokens
\* longer than 2 characters, in order
AcronymOf(ks) ==
    LET long == SelectSeq(ks, LAMBDA w : Len(w) > 2) IN
    [j \in DOMAIN long |-> UpperOf[long[j][1]]]

\* The normalized input cleanName is one token of length >= 3 that equals,
\* whatever its case, the acronym of the candidate cleanKey
AcronymHit(cleanName, cleanKey) ==
    LET ws == WordsOf(cleanName) IN
    /\ Len(ws) = 1
    /\ Len(ws[1]) >= 3
    /\ ToUpperCase(ws[1]) = AcronymOf(WordsOf(cleanKey))

(***************************************************************************)
(* C10 as the specification states it: a candidate whose acronym the       *)
(* one-token input equals scores at least 95, and a call over a mapping    *)
(* that holds such a candidate with a non-empty identifier never returns   *)
(* the empty string.                                                       *)
(* Violated: findTicker("CAMS", ...) over "Computer Age Management         *)
(* Services Ltd" -> "T1" and "Cams Ltd" -> "" returns "", the identifier   *)
(* of the exact match.                                                     *)
(***************************************************************************)
C10_NeverEmpty ==
    /\ Scanned =>
           \A i \in ScoredEntries :
               AcronymHit(call.cleanName, call.trace[i].cleanKey)
                   => call.trace[i].score >= 95
    /\ ( /\ Called
         /\ PassesChecks(call.companyName)
         /\ \E i \in DOMAIN call.tickerDict :
                /\ call.tickerDict[i].ticker # ""
                /\ NameOf(call.tickerDict[i].key) \notin {Null, ""}
                /\ AcronymHit(NameOf(call.companyName), NameOf(call.tickerDict[i].key)) )
       => call.result # ""

(***************************************************************************)
(* C10, corrected: in the scoring loop a candidate whose acronym the       *)
(* one-token input (length >= 3) equals gets max(score + 50, 95), so at    *)
(* least 95, and every other candidate's score moves in the acronym step   *)
(* by one of -15, 0, +25, +30, +45 with no floor. Consequently a call that *)
(* reaches the scoring loop over a mapping holding such a candidate always *)
(* selects an entry, one scoring at least 95, and returns that entry's     *)
(* identifier: it is the empty string only if the selected entry's         *)
(* identifier is.                                                          *)
(***************************************************************************)
C10_AcronymFloor ==
    Scanned =>
        /\ \A i \in ScoredEntries :
               IF AcronymHit(call.cleanName, call.trace[i].cleanKey)
               THEN /\ call.trace[i].score >= 95
                    /\ call.trace[i].score >= call.trace[i].pre + 50
                    /\ call.trace[i].score \in {95, call.trace[i].pre + 50}
               ELSE call.trace[i].score - call.trace[i].pre \in {-15, 0, 25, 30, 45}
        /\ (\E i \in ScoredEntries : AcronymHit(call.cleanName, call.trace[i].cleanKey))
               => /\ call.branch = "fuzzy"
                  /\ call.bestMatch \in ScoredEntries
                  /\ call.bestScore >= 95
                  /\ call.result = call.tickerDict[call.bestMatch].ticker

\* C10 witness: an acronym match whose score would stay below 95 with the boost
\* alone is raised to 95 and selected
C10_FloorWitness ==
    /\ Scanned
    /\ \E i \in ScoredEntries :
           /\ AcronymHit(call.cleanName, call.trace[i].cleanKey)
           /\ call.trace[i].pre + 50 < 95
           /\ call.trace[i].score = 95
           /\ call.bestMatch = i
           /\ call.result = "T1"

\* The words the three regular expressions remove (the "&" apart)
RemovableWords ==
    {t.w : t \in Range(LegalSuffixes) \cup Range(Descriptors) \cup Range(Conjunctions)}
        \ {<<"&">>}

\* cs holds "&" directly between two word characters
AmpJoins(cs) ==
    \E i \in 2..(Len(cs) - 1) :
        cs[i] = "&" /\ IsWordChar(cs[i - 1]) /\ IsWordChar(cs[i + 1])

\* Some token of the normalized name y is a removable word
HasRemovableToken(y) == \E t \in Range(WordsOf(y)) : t \in RemovableWords

(***************************************************************************)
(* C6 as the specification states it: cleanCompanyName applied to its own  *)
(* result returns that result, for every non-null raw name.                *)
(* Violated: "c&o" gives "co" (the "&" between two letters is removed and  *)
(* joins them), and "co" gives ""; and "" gives null.                      *)
(***************************************************************************)
C6_Idempotent ==
    call.op = "again" => call.result = call.first

(***************************************************************************)
(* C6, corrected: for a raw name x with normalized form y (not null),      *)
(* normalizing y returns y, except that it returns null when y is empty    *)
(* and returns something else when a token of y is itself a removable      *)
(* word, which happens only where x holds "&" directly between two word    *)
(* characters.                                                             *)
(***************************************************************************)
C6_IdempotentUnlessJoined ==
    call.op = "again" =>
        IF call.first = "" THEN call.result = Null
        ELSE IF HasRemovableToken(call.first)
             THEN call.result # call.first /\ AmpJoins(Chars(call.name))
             ELSE call.result = call.first

\* C6 witness: a raw name with "&" between two letters, which normalization
\* joins into a token that is no removable word; the result normalizes to
\* itself
C6_JoinedFixedPoint ==
    /\ call.op = "again"
    /\ AmpJoins(Chars(call.name))
    /\ call.first # ""
    /\ call.result = call.first

=============================================================================
